---- MODULE Spec2Model ----
(***************************************************************************)
(* A model of convert_audio_tool: the media file locator, the single-file  *)
(* converter with its progress loop, the batch converter with its archive  *)
(* step (src/src/convert_audio_tool/core.py) and the command line entry    *)
(* point (src/src/convert_audio_tool/cli.py).                              *)
(*                                                                         *)
(* Text is a sequence of one-character strings, so that splitting,         *)
(* stripping, prefix and suffix tests and number parsing are computed the  *)
(* way the code computes them.  Times are integers in microseconds (the    *)
(* code holds them as float seconds); an absent value (Python None) is the *)
(* empty tuple and a present value v is <<v>>.                             *)
(***************************************************************************)
EXTENDS Integers, Sequences, FiniteSets, TLC

\* ------------------------------------------------------------------ bounds

\* The most progress lines one transcode process writes before closing its pipe.
MaxLines == 2

\* The most reads of a progress pipe that fail in one run.
MaxReadErrors == 1

\* ------------------------------------------------------------------- text

None == <<>>
Some(v) == <<v>>
IsNone(o) == o = <<>>
Val(o) == o[1]

UpperLetters == <<"A","B","C","D","E","F","G","H","I","J","K","L","M","N","O","P","Q","R","S","T","U","V","W","X","Y","Z">>
LowerLetters == <<"a","b","c","d","e","f","g","h","i","j","k","l","m","n","o","p","q","r","s","t","u","v","w","x","y","z">>
DigitChars == <<"0","1","2","3","4","5","6","7","8","9">>
Whitespace == {" ", "\n", "\t", "\r"}

\* str.lower() on one character.
LowerChar(c) ==
    IF \E i \in 1..26 : UpperLetters[i] = c
    THEN LowerLetters[CHOOSE i \in 1..26 : UpperLetters[i] = c]
    ELSE c

\* str.lower()
Lower(s) == [i \in 1..Len(s) |-> LowerChar(s[i])]

\* str.startswith(prefix) / str.endswith(suffix)
StartsWith(s, p) == Len(s) >= Len(p) /\ SubSeq(s, 1, Len(p)) = p
EndsWith(s, x) == Len(s) >= Len(x) /\ SubSeq(s, Len(s) - Len(x) + 1, Len(s)) = x

\* `x in s` for strings: x occurs in s as a substring.
Contains(s, x) == \E i \in 1..(Len(s) - Len(x) + 1) : SubSeq(s, i, i + Len(x) - 1) = x

\* str.strip(): leading and trailing whitespace removed.
RECURSIVE LStrip(_)
LStrip(s) == IF s # <<>> /\ Head(s) \in Whitespace THEN LStrip(Tail(s)) ELSE s
RECURSIVE RStrip(_)
RStrip(s) == IF s # <<>> /\ s[Len(s)] \in Whitespace THEN RStrip(SubSeq(s, 1, Len(s) - 1)) ELSE s
Strip(s) == RStrip(LStrip(s))

\* str.lstrip("."): leading dots removed.
RECURSIVE LStripDots(_)
LStripDots(s) == IF s # <<>> /\ Head(s) = "." THEN LStripDots(Tail(s)) ELSE s

\* The positions of character c in s.
Positions(s, c) == {i \in 1..Len(s) : s[i] = c}
Min(S) == CHOOSE x \in S : \A y \in S : x <= y
Max(S) == CHOOSE x \in S : \A y \in S : x >= y

\* s.split(c): the pieces of s between the occurrences of c.
RECURSIVE Split(_, _)
Split(s, c) ==
    IF Positions(s, c) = {} THEN <<s>>
    ELSE LET i == Min(Positions(s, c))
         IN <<SubSeq(s, 1, i - 1)>> \o Split(SubSeq(s, i + 1, Len(s)), c)

\* s.split(c, 1): at most one split, at the first occurrence of c.
Split1(s, c) ==
    IF Positions(s, c) = {} THEN <<s>>
    ELSE LET i == Min(Positions(s, c))
         IN <<SubSeq(s, 1, i - 1), SubSeq(s, i + 1, Len(s))>>

IsDigit(c) == \E i \in 1..10 : DigitChars[i] = c
DigitVal(c) == (CHOOSE i \in 1..10 : DigitChars[i] = c) - 1
AllDigits(s) == \A i \in 1..Len(s) : IsDigit(s[i])

RECURSIVE DigitsVal(_)
DigitsVal(s) == IF s = <<>> THEN 0 ELSE 10 * DigitsVal(SubSeq(s, 1, Len(s) - 1)) + DigitVal(s[Len(s)])

\* int(s): surrounding whitespace, an optional sign, then one or more digits;
\* anything else raises ValueError (None here).
ParseInt(s) ==
    LET b == Strip(s)
        signed == b # <<>> /\ Head(b) \in {"-", "+"}
        d == IF signed THEN Tail(b) ELSE b
    IN IF d = <<>> \/ ~AllDigits(d) THEN None
       ELSE IF signed /\ Head(b) = "-" THEN Some(0 - DigitsVal(d)) ELSE Some(DigitsVal(d))

\* The first six digits of a fraction, right-padded with zeros: its microseconds.
RECURSIVE PadMicros(_)
PadMicros(f) == IF Len(f) >= 6 THEN SubSeq(f, 1, 6) ELSE PadMicros(f \o <<"0">>)

\* float(s) of a decimal `digits[.digits]` with an optional sign, in microseconds;
\* anything else raises ValueError (None here).
ParseFloatMicros(s) ==
    LET b == Strip(s)
        signed == b # <<>> /\ Head(b) \in {"-", "+"}
        d == IF signed THEN Tail(b) ELSE b
        parts == Split(d, ".")
        whole == parts[1]
        frac == IF Len(parts) = 2 THEN parts[2] ELSE <<>>
        ok == /\ Len(parts) <= 2
              /\ AllDigits(whole) /\ AllDigits(frac)
              /\ whole \o frac # <<>>
        v == DigitsVal(whole) * 1000000 + DigitsVal(PadMicros(frac))
    IN IF ~ok THEN None
       ELSE IF signed /\ Head(b) = "-" THEN Some(0 - v) ELSE Some(v)

\* ------------------------------------------------------- progress protocol

KeyOutTimeMs == <<"o","u","t","_","t","i","m","e","_","m","s","=">>
KeyOutTime == <<"o","u","t","_","t","i","m","e","=">>
KeyProgress == <<"p","r","o","g","r","e","s","s","=">>
WordEnd == <<"e","n","d">>

\* _parse_out_time: 'out_time=HH:MM:SS.micro' to a time, None when parsing fails.
ParseOutTime(line) ==
    LET kv == Split1(line, "=")
    IN IF Len(kv) < 2 THEN None
       ELSE LET value == Strip(kv[2])
                hms == Split(value, ":")
            IN IF value = <<>> \/ Len(hms) # 3 THEN None
               ELSE LET h == ParseInt(hms[1])
                        m == ParseInt(hms[2])
                        s == ParseFloatMicros(hms[3])
                    IN IF IsNone(h) \/ IsNone(m) \/ IsNone(s) THEN None
                       ELSE Some(Val(s) + 60 * (Val(m) + 60 * Val(h)) * 1000000)

\* The timestamp of one stripped, non-empty line: out_time_ms first, out_time
\* otherwise, None for every other line.
LineTime(line) ==
    IF StartsWith(line, KeyOutTimeMs) THEN ParseInt(Split1(line, "=")[2])
    ELSE IF StartsWith(line, KeyOutTime) THEN ParseOutTime(line)
    ELSE None

\* The test that ends the read loop.
LineIsEnd(line) == StartsWith(line, KeyProgress) /\ Contains(line, WordEnd)

\* The lines a transcode process may write to its progress pipe.
Lines == <<
    <<"o","u","t","_","t","i","m","e","_","m","s","=","5","0","0","0","0","0","0","\n">>,
    <<"o","u","t","_","t","i","m","e","_","m","s","=","1","0","0","0","0","0","0","0","\n">>,
    <<"o","u","t","_","t","i","m","e","_","m","s","=","1","2","0","0","0","0","0","0","\n">>,
    <<"o","u","t","_","t","i","m","e","_","m","s","=","-","5","0","0","0","0","0","0","\n">>,
    <<"o","u","t","_","t","i","m","e","_","m","s","=","N","/","A","\n">>,
    <<"o","u","t","_","t","i","m","e","=","0","0",":","0","0",":","0","7",".","5","0","0","0","0","0","\n">>,
    <<"o","u","t","_","t","i","m","e","=","g","a","r","b","a","g","e","\n">>,
    <<"p","r","o","g","r","e","s","s","=","c","o","n","t","i","n","u","e","\n">>,
    <<"p","r","o","g","r","e","s","s","=","e","n","d","\n">>,
    <<"p","r","o","g","r","e","s","s","=","\n">>,
    <<"p","r","o","g","r","e","s","s","=","p","e","n","d","i","n","g","\n">>,
    <<"s","p","e","e","d","=","1",".","0","x","\n">>,
    <<"\n">> >>

\* ------------------------------------------------------------ file system

\* Extensions we process (audio + some common video containers).
MEDIA_EXTENSIONS == <<
    <<".","w","a","v">>, <<".","f","l","a","c">>, <<".","a","a","c">>,
    <<".","o","g","g">>, <<".","m","p","3">>, <<".","m","p","4">>,
    <<".","m","4","a">>, <<".","m","x","f">>, <<".","m","o","v">>,
    <<".","a","v","i">> >>

\* Directories.  InDir, OutDir and ArchDir are the built-in defaults of the command line;
\* SubDir is a subdirectory of InDir whose own name, SubName, ends like a media file.
InDir == "input_folder"
SubDir == "input_folder/s.mov"
OutDir == "output_folder/odpovedi"
ArchDir == "archived"
SubName == <<"s",".","m","o","v">>

\* The subdirectories of a directory (the tree of directories is fixed).
SubdirsOf(d) == IF d = InDir THEN <<SubDir>> ELSE <<>>

\* File names.
A_wav == <<"a",".","w","a","v">>
A_MP3 == <<"a",".","M","P","3">>
B_txt == <<"b",".","t","x","t">>

\* os.path.join(root, filename), os.path.basename(path)
Join(d, n) == [dir |-> d, name |-> n]
Basename(p) == p.name

\* The end of the string os.path.join builds: the separator and the filename.
\* No extension holds a separator, so a suffix test on this tail decides as the
\* one on the whole path does.
PathTail(p) == <<"/">> \o p.name

\* os.path.splitext(name)[0]: the name up to its last dot, the whole name when
\* nothing but dots precedes that dot.
SplitextRoot(n) ==
    IF Positions(n, ".") = {} THEN n
    ELSE LET dot == Max(Positions(n, "."))
         IN IF \E j \in 1..(dot - 1) : n[j] # "." THEN SubSeq(n, 1, dot - 1) ELSE n

\* The regular files a run may find when it starts: two sources with one stem
\* (one spelled in upper case), a source of the same name in the subdirectory,
\* and files already in the output and archive directories.
Universe == {Join(InDir, A_wav), Join(InDir, A_MP3), Join(SubDir, A_wav),
             Join(OutDir, A_wav), Join(ArchDir, A_wav)}

\* A text file that lies in every input folder.
TextFile == Join(InDir, B_txt)

\* A file the user put at path p, and the file a transcode of s wrote.
UserFile(p) == [made |-> "user", from |-> p]
Transcoded(s) == [made |-> "ffmpeg", from |-> s]

\* ---------------------------------------------------------------- state

VARIABLES
    config, argv,                                   \* the defaults record, the command line
    input_folder, output_folder, output_ext,        \* the arguments of convert_folder
    recursive, overwrite, quiet, archive_folder,
    tools, dirs, fs,                                \* PATH, directories, regular files
    pc,                                             \* where the program is
    todo, pending,                                  \* the frame of iter_media_files
    converted_files, src_path, out_path, mv,        \* the frame of convert_folder
    duration, last_t, bar, nread, raw_line, returncode,       \* the frame of convert_media
    alive,                                          \* transcode processes launched and not awaited
    out,                                            \* lines printed since the last convert_media call returned
    yielded, probes, popens, tgtExisted, writes,    \* what has been observed of the run so far
    readErrors                                      \* reads of a progress pipe that failed

cliVars == <<config, argv>>
argVars == <<input_folder, output_folder, output_ext, recursive, overwrite, quiet, archive_folder>>
genVars == <<todo, pending>>
mediaVars == <<duration, last_t, bar, nread, raw_line, returncode>>
callObs == <<probes, popens, tgtExisted>>
envVars == <<tools, readErrors>>
vars == <<config, argv, input_folder, output_folder, output_ext, recursive, overwrite, quiet,
          archive_folder, tools, dirs, fs, pc, todo, pending, converted_files, src_path, out_path,
          mv, duration, last_t, bar, nread, raw_line, returncode, alive, out, yielded,  probes,
          popens, tgtExisted, writes, readErrors>>

\* os.path.isfile, os.path.exists, os.path.isdir
IsFile(p) == p \in DOMAIN fs
Exists(p) == p \in DOMAIN fs
\* The directory test that holds of any path.
IsDirAlways(d) == TRUE

\* os.path.isdir
IsDir(d) == d \in dirs

\* The file system with file p holding c (created or overwritten).
WriteFile(f, p, c) == [q \in DOMAIN f \cup {p} |-> IF q = p THEN c ELSE f[q]]
\* The file system without file p.
RemoveFile(f, p) == [q \in DOMAIN f \ {p} |-> f[q]]

\* ------------------------------------------------------ iter_media_files

\* The suffix test on the path as spelled, without lower().
IsMediaPathAsSpelled(p) ==
    \E i \in 1..Len(MEDIA_EXTENSIONS) : EndsWith(PathTail(p), MEDIA_EXTENSIONS[i])

\* full.lower().endswith(MEDIA_EXTENSIONS)
IsMediaPath(p) ==
    \E i \in 1..Len(MEDIA_EXTENSIONS) : EndsWith(Lower(PathTail(p)), MEDIA_EXTENSIONS[i])

\* The test of one listed entry: a regular file with a media suffix.
Accept(p) == IsFile(p) /\ IsMediaPath(p)

\* os.listdir(d): the files of d and its subdirectory, joined to d.
ListDir(d) ==
    {q \in DOMAIN fs : q.dir = d}
        \cup {Join(d, SubName) : x \in {y \in {SubDir} : d = InDir /\ IsDir(SubDir)}}

\* The `files` os.walk reports for d: the entries of d that are not directories.
WalkFiles(d) == {q \in DOMAIN fs : q.dir = d}

\* The entries one visit of directory d gives the generator.
Entries(d) == IF recursive THEN WalkFiles(d) ELSE ListDir(d)

\* The directories os.walk visits after d, before the ones already waiting.
Descend(d) == IF recursive THEN SelectSeq(SubdirsOf(d), IsDir) ELSE <<>>

\* The generator run up to its next yield: entries that fail the test are
\* dropped, and when a directory has none left the next one is listed, as it is
\* at that moment.  No entry left means the generator is exhausted.
RECURSIVE Resume(_, _)
Resume(pend, td) ==
    LET live == {q \in pend : Accept(q)}
    IN IF live # {} THEN [pending |-> live, todo |-> td]
       ELSE IF td = <<>> THEN [pending |-> {}, todo |-> <<>>]
       ELSE Resume(Entries(Head(td)), Descend(Head(td)) \o Tail(td))

\* ---------------------------------------------------------- convert_media

\* A printed line.
Msg(text, args) == [text |-> text, args |-> args]
MsgSkipping == "Skipping (exists)"
MsgOK == "OK"
MsgErrorDuring == "Error during conversion"
MsgErrorConverting == "Error converting"
MsgNoInput == "Input folder does not exist"
MsgMoved == "Moved"

\* What ffprobe's answer parses to: nothing, zero, or ten seconds.
ProbeResults == {None, Some(0), Some(10000000)}

NoPath == Join("", <<>>)

\* Where the program is inside convert_media.
InCall == pc \in {"cm_enter", "cm_exists", "cm_popen", "cm_loop", "cm_drain", "cm_wait", "cm_return"}

\* `not duration`: None or 0.0.
NoDuration(d) == IsNone(d) \/ Val(d) = 0

\* The test that never skips.
SkipNever(exists, ow) == FALSE

\* The test with the overwrite flag the wrong way round.
SkipWhenOverwrite(exists, ow) == exists /\ ow

\* os.path.exists(output_file) and not overwrite
SkipExisting(exists, ow) == exists /\ ~ow

\* The timestamp taken as it is, with no upper limit.
ClampMissing(t, d) == t

\* min(t, duration)
Clamp(t, d) == IF t < d THEN t ELSE d

\* check_ffmpeg(): EnvironmentError when ffmpeg or ffprobe is not in PATH.  It is
\* called outside the try block, so the error leaves convert_media and, through
\* convert_folder and main, ends the program with a traceback.
CM_CheckFfmpeg ==
    /\ pc = "cm_enter"
    /\ pc' = IF tools = "ok" THEN "cm_exists" ELSE "uncaught"
    /\ UNCHANGED <<cliVars, argVars, envVars, dirs, fs, genVars, converted_files, src_path, out_path,
                   mv, mediaVars, alive, out, yielded,  callObs, writes>>

\* The target exists and overwrite is off: report and return.
CM_Skip ==
    /\ pc = "cm_exists"
    /\ SkipExisting(Exists(out_path), overwrite)
    /\ out' = IF quiet THEN out ELSE Append(out, Msg(MsgSkipping, <<out_path>>))
    /\ pc' = "cm_return"
    /\ UNCHANGED <<cliVars, argVars, envVars, dirs, fs, genVars, converted_files, src_path, out_path,
                   mv, mediaVars, alive, yielded,  callObs, writes>>

\* get_media_duration(input_file): one ffprobe run, None on any failure.
CM_Probe ==
    /\ pc = "cm_exists"
    /\ ~SkipExisting(Exists(out_path), overwrite)
    /\ \E d \in ProbeResults : duration' = d
    /\ probes' = probes + 1
    /\ pc' = "cm_popen"
    /\ UNCHANGED <<cliVars, argVars, envVars, dirs, fs, genVars, converted_files, src_path, out_path,
                   mv, last_t, bar, nread, raw_line, returncode, alive, out, yielded,  popens,
                   tgtExisted, writes>>

\* Whether ffmpeg run with -y (overwrite) or -n may write target p.
MayWrite(p) == overwrite \/ ~Exists(p)

\* subprocess.Popen(command, ...): the launch fails with OSError, which the
\* except clause reports, or the process starts.  ffmpeg opens its output file
\* before it writes the first progress line and gives up at once when it cannot
\* (bad input, or -n and the file is there), so by the time anything is read
\* from its pipe the process has created its output or never will.
CM_Popen ==
    /\ pc = "cm_popen"
    /\ popens' = popens + 1
    /\ \/ /\ out' = Append(out, Msg(MsgErrorConverting, <<src_path>>))
          /\ pc' = "cm_return"
          /\ UNCHANGED <<alive, fs, writes>>
       \/ /\ alive' = alive \cup {src_path}
          /\ pc' = IF NoDuration(duration) THEN "cm_drain" ELSE "cm_loop"
          /\ \/ UNCHANGED <<fs, writes>>
             \/ /\ MayWrite(out_path)
                /\ fs' = WriteFile(fs, out_path, Transcoded(src_path))
                /\ writes' = writes \cup {<<out_path, src_path>>}
          /\ UNCHANGED out
    /\ UNCHANGED <<cliVars, argVars, envVars, dirs, genVars, converted_files, src_path, out_path,
                   mv, mediaVars, yielded,  probes, tgtExisted>>

\* What the loop body reads off each line the process may write.
LineInfo ==
    [i \in 1..Len(Lines) |->
        LET line == Strip(Lines[i])
        IN [blank |-> line = <<>>, t |-> LineTime(line), end |-> LineIsEnd(line)]]

\* One iteration of `for raw_line in process.stdout`.
CM_ReadLine ==
    /\ pc = "cm_loop"
    /\ nread < MaxLines
    /\ \E i \in 1..Len(Lines) :
        LET info == LineInfo[i]
            t == IF IsNone(info.t) THEN last_t ELSE Clamp(Val(info.t), Val(duration))
            moves == ~info.blank /\ ~IsNone(info.t) /\ t > last_t
        IN /\ bar' = IF moves THEN bar + (t - last_t) ELSE bar
           /\ last_t' = IF moves THEN t ELSE last_t
           /\ pc' = IF ~info.blank /\ info.end THEN "cm_wait" ELSE "cm_loop"
           /\ nread' = IF ~info.blank /\ info.end THEN 0 ELSE nread + 1
           /\ raw_line' = Lines[i]
    /\ UNCHANGED <<cliVars, argVars, envVars, dirs, fs, genVars, converted_files, src_path, out_path,
                   mv, duration, returncode, alive, out, yielded,  callObs, writes>>

\* The process closes its pipe: readline() returns '' and the for loop ends.
CM_Eof ==
    /\ pc = "cm_loop"
    /\ nread' = 0
    /\ raw_line' = <<>>
    /\ pc' = "cm_wait"
    /\ UNCHANGED <<cliVars, argVars, envVars, dirs, fs, genVars, converted_files, src_path, out_path,
                   mv, duration, last_t, bar, returncode, alive, out, yielded,  callObs,
                   writes>>

\* Reading the pipe raises (an I/O or decoding error): the except clause reports
\* it and the function returns; process.wait() is not reached.
CM_ReadError ==
    /\ pc \in {"cm_loop", "cm_drain"}
    /\ readErrors < MaxReadErrors
    /\ readErrors' = readErrors + 1
    /\ out' = Append(out, Msg(MsgErrorConverting, <<src_path>>))
    /\ nread' = 0
    /\ raw_line' = <<>>
    /\ pc' = "cm_return"
    /\ UNCHANGED <<cliVars, argVars, tools, dirs, fs, genVars, converted_files, src_path, out_path,
                   mv, duration, last_t, bar, returncode, alive, yielded,  callObs, writes>>

\* The exit codes process.wait() may return: zero only from a process that
\* wrote its output.
ExitCodes == IF <<out_path, src_path>> \in writes THEN {0, 1} ELSE {1}

\* The line printed for exit code ret.
Report(ret) ==
    IF ret = 0 THEN (IF quiet THEN out ELSE Append(out, Msg(MsgOK, <<src_path, out_path>>)))
    ELSE Append(out, Msg(MsgErrorDuring, <<src_path, out_path>>))

\* After the loop: process.wait(), the bar forced to its total, the report.
\* raw_line is not read after the loop and is dropped here.
CM_Finish ==
    /\ pc = "cm_wait"
    /\ \E ret \in ExitCodes :
        /\ returncode' = Some(ret)
        /\ out' = Report(ret)
    /\ alive' = alive \ {src_path}
    /\ bar' = IF last_t < Val(duration) THEN bar + (Val(duration) - last_t) ELSE bar
    /\ raw_line' = <<>>
    /\ pc' = "cm_return"
    /\ UNCHANGED <<cliVars, argVars, envVars, dirs, fs, genVars, converted_files, src_path, out_path,
                   mv, duration, last_t, nread, yielded,  callObs, writes>>

\* Duration unknown: the pipe is drained, the process awaited, the result reported.
CM_Drain ==
    /\ pc = "cm_drain"
    /\ \E ret \in ExitCodes :
        /\ returncode' = Some(ret)
        /\ out' = Report(ret)
    /\ alive' = alive \ {src_path}
    /\ pc' = "cm_return"
    /\ UNCHANGED <<cliVars, argVars, envVars, dirs, fs, genVars, converted_files, src_path, out_path,
                   mv, duration, last_t, bar, nread, raw_line, yielded,  callObs, writes>>

\* --------------------------------------------------------- convert_folder

\* The source recorded only when its transcode succeeded.
RecordIfSucceeded(list, s) == IF returncode = Some(0) THEN Append(list, s) ELSE list

\* converted_files.append(src_path)
RecordConverted(list, s) == Append(list, s)

\* os.path.join(output_folder, rel_name + output_ext)
TargetOf(s) == Join(output_folder, SplitextRoot(Basename(s)) \o output_ext)

\* The destination named by the source's stem, its extension dropped.
ArchiveDestStem(archive, s) == Join(archive, SplitextRoot(Basename(s)))

\* os.path.join(archive_folder, os.path.basename(src))
ArchiveDest(archive, s) == Join(archive, Basename(s))

\* The input folder check, os.makedirs(output_folder), and the generator made.
CF_Start ==
    /\ pc = "cf_start"
    /\ IF ~IsDir(input_folder)
       THEN /\ out' = Append(out, Msg(MsgNoInput, <<input_folder>>))
            /\ pc' = "exit1"
            /\ UNCHANGED <<dirs, converted_files, genVars>>
       ELSE /\ dirs' = dirs \cup {output_folder}
            /\ converted_files' = <<>>
            /\ todo' = <<input_folder>>
            /\ pending' = {}
            /\ pc' = "cf_loop"
            /\ UNCHANGED out
    /\ UNCHANGED <<cliVars, argVars, envVars, fs, src_path, out_path, mv, mediaVars, alive, yielded,
                    callObs, writes>>

\* The for loop takes the next path from the generator and calls convert_media.
CF_Yield ==
    /\ pc = "cf_loop"
    /\ LET g == Resume(pending, todo)
       IN /\ g.pending # {}
          /\ \E p \in g.pending :
                /\ src_path' = p
                /\ out_path' = TargetOf(p)
                /\ pending' = g.pending \ {p}
                /\ yielded' = Append(yielded, p)
                /\ tgtExisted' = Exists(TargetOf(p))
          /\ todo' = g.todo
    /\ duration' = None /\ last_t' = 0 /\ bar' = 0 /\ nread' = 0 /\ raw_line' = <<>> /\ returncode' = None
    /\ probes' = 0 /\ popens' = 0
    /\ pc' = "cm_enter"
    /\ UNCHANGED <<cliVars, argVars, envVars, dirs, fs, converted_files, mv, alive, out, 
                   writes>>

\* convert_media returns: the source is recorded, whatever the call did.
CM_Return ==
    /\ pc = "cm_return"
    /\ converted_files' = RecordConverted(converted_files, src_path)
    /\ src_path' = NoPath /\ out_path' = NoPath
    /\ duration' = None /\ last_t' = 0 /\ bar' = 0 /\ nread' = 0 /\ raw_line' = <<>> /\ returncode' = None
    /\ out' = <<>>
    /\ pc' = "cf_loop"
    /\ UNCHANGED <<cliVars, argVars, envVars, dirs, fs, genVars, mv, alive, yielded, callObs, writes>>

\* The generator is exhausted: the archive folder is made, or the run is over.
CF_Exhausted ==
    /\ pc = "cf_loop"
    /\ Resume(pending, todo).pending = {}
    /\ pending' = {} /\ todo' = <<>>
    /\ IF IsNone(archive_folder)
       THEN pc' = "done" /\ UNCHANGED <<dirs, mv>>
       ELSE pc' = "cf_archive" /\ dirs' = dirs \cup {Val(archive_folder)} /\ mv' = 1
    /\ UNCHANGED <<cliVars, argVars, envVars, fs, converted_files, src_path, out_path, mediaVars,
                   alive, out, yielded,  callObs, writes>>

\* shutil.move(src, dest) on files: a missing src raises; src and dest the same
\* file is a rename onto itself and changes nothing; otherwise dest is replaced by
\* src's content and src is gone.
MoveFile(f, s, d) == IF s = d THEN f ELSE RemoveFile(WriteFile(f, d, f[s]), s)

\* One iteration of `for src in converted_files`.
CF_Move ==
    /\ pc = "cf_archive"
    /\ mv <= Len(converted_files)
    /\ LET s == converted_files[mv]
       IN IF ~Exists(s)
          THEN pc' = "uncaught" /\ UNCHANGED <<fs, mv>>
          ELSE /\ fs' = MoveFile(fs, s, ArchiveDest(Val(archive_folder), s))
               /\ mv' = mv + 1
               /\ pc' = "cf_archive"
    /\ UNCHANGED <<cliVars, argVars, envVars, dirs, genVars, converted_files, src_path, out_path,
                   mediaVars, alive, out, yielded,  callObs, writes>>

\* After the last move: the count is reported.
CF_Moved ==
    /\ pc = "cf_archive"
    /\ mv > Len(converted_files)
    /\ out' = IF quiet THEN out
              ELSE Append(out, Msg(MsgMoved, <<Len(converted_files), Val(archive_folder)>>))
    /\ pc' = "done"
    /\ UNCHANGED <<cliVars, argVars, envVars, dirs, fs, genVars, converted_files, src_path, out_path,
                   mv, mediaVars, alive, yielded,  callObs, writes>>

\* ------------------------------------------------------------------- cli

\* A value of the defaults file: a JSON string, null, a number, or no such key.
JStr(v) == [t |-> "str", v |-> v]
JNull == [t |-> "null", v |-> ""]
JNum == [t |-> "num", v |-> ""]
JAbsent == [t |-> "absent", v |-> ""]

\* The file: missing, not JSON, JSON that is no object, or an object.
NoConfigFile == [kind |-> "missing", input_folder |-> JAbsent, output_folder |-> JAbsent, archive |-> JAbsent]
ConfigDict(i, o, a) == [kind |-> "dict", input_folder |-> i, output_folder |-> o, archive |-> a]

\* load_config()[key], with a key that load_config leaves out read as
\* config.get(key) reads it: a string is kept, null and a missing key are None,
\* any other value is dropped, and a file that is no JSON object gives {}.
LoadedValue(cfg, jv) ==
    IF cfg.kind = "dict" /\ jv.t = "str" THEN Some(jv.v) ELSE None

\* `config.get(key) or default`: the default for None and for the empty string.
OrDefault(o, default) == IF IsNone(o) \/ Val(o) = "" THEN default ELSE Val(o)

\* The defaults parse_args gives its parser.
DefaultInput(cfg) == OrDefault(LoadedValue(cfg, cfg.input_folder), "input_folder")
DefaultOutput(cfg) == OrDefault(LoadedValue(cfg, cfg.output_folder), "output_folder/odpovedi")
DefaultArchive(cfg) == OrDefault(LoadedValue(cfg, cfg.archive), "archived")

\* An option's value: the one on the command line, else its default.
OptionOr(o, default) == IF IsNone(o) THEN default ELSE Val(o)

\* archive_folder = None if args.no_archive else args.archive
ArchiveArg(cfg, av) ==
    IF av.no_archive THEN None ELSE Some(OptionOr(av.archive, DefaultArchive(cfg)))

\* output_ext = "." + args.format.lstrip(".")
OutputExt(av) == <<".">> \o LStripDots(OptionOr(av.format, <<"w","a","v">>))

\* save_config: the record written to the defaults file.
SavedConfig(i, o, a) ==
    ConfigDict(JStr(i), JStr(o), IF IsNone(a) THEN JNull ELSE JStr(Val(a)))

\* main() with --show-defaults: the defaults are printed and nothing is run.
Main_ShowDefaults ==
    /\ pc = "main"
    /\ argv.show_defaults
    /\ out' = Append(out, Msg("Current defaults",
                  <<OptionOr(argv.input, DefaultInput(config)),
                    OptionOr(argv.output, DefaultOutput(config)),
                    ArchiveArg(config, argv)>>))
    /\ pc' = "done"
    /\ UNCHANGED <<cliVars, argVars, envVars, dirs, fs, genVars, converted_files, src_path, out_path,
                   mv, mediaVars, alive, yielded,  callObs, writes>>

\* main(): the arguments are parsed over the loaded defaults, the defaults are
\* saved when asked, and convert_folder is called.
Main_Run ==
    /\ pc = "main"
    /\ ~argv.show_defaults
    /\ input_folder' = OptionOr(argv.input, DefaultInput(config))
    /\ output_folder' = OptionOr(argv.output, DefaultOutput(config))
    /\ archive_folder' = ArchiveArg(config, argv)
    /\ output_ext' = OutputExt(argv)
    /\ recursive' = argv.recursive
    /\ overwrite' = argv.overwrite
    /\ quiet' = argv.quiet
    /\ config' = IF argv.save_defaults
                 THEN SavedConfig(input_folder', output_folder', archive_folder')
                 ELSE config
    /\ pc' = "cf_start"
    /\ UNCHANGED <<argv, envVars, dirs, fs, genVars, converted_files, src_path, out_path, mv,
                   mediaVars, alive, out, yielded,  callObs, writes>>

\* ----------------------------------------------------------------- list

\* iter_media_files(input_folder, recursive) called: the generator is made, and
\* nothing of it has run.
L_Start ==
    /\ pc = "list_start"
    /\ todo' = <<input_folder>>
    /\ pending' = {}
    /\ pc' = "list"
    /\ UNCHANGED <<cliVars, argVars, envVars, dirs, fs, converted_files, src_path, out_path, mv,
                   mediaVars, alive, out, yielded,  callObs, writes>>

\* list(...) takes the generator's next path, or finds it exhausted.
L_Next ==
    /\ pc = "list"
    /\ LET g == Resume(pending, todo)
       IN IF g.pending = {}
          THEN pc' = "listed" /\ pending' = {} /\ todo' = <<>> /\ UNCHANGED yielded
          ELSE /\ \E p \in g.pending :
                    /\ pending' = g.pending \ {p}
                    /\ yielded' = Append(yielded, p)
               /\ todo' = g.todo
               /\ pc' = "list"
    /\ UNCHANGED <<cliVars, argVars, envVars, dirs, fs, converted_files, src_path, out_path, mv,
                   mediaVars, alive, out,  callObs, writes>>

\* ------------------------------------------------------- specifications

\* The command line with no option given.
NoArgv == [input |-> None, output |-> None, format |-> None, archive |-> None,
           no_archive |-> FALSE, recursive |-> FALSE, overwrite |-> FALSE, quiet |-> FALSE,
           save_defaults |-> FALSE, show_defaults |-> FALSE]

\* The files of S as the user left them, and the directories that hold them.
FilesOf(S) == [p \in S |-> UserFile(p)]
DirsOf(S) == {InDir, SubDir} \cup {p.dir : p \in S}

\* The frames and the observations before anything has run.
InitFrames ==
    /\ todo = <<>> /\ pending = {}
    /\ converted_files = <<>> /\ src_path = NoPath /\ out_path = NoPath /\ mv = 1
    /\ duration = None /\ last_t = 0 /\ bar = 0 /\ nread = 0 /\ raw_line = <<>> /\ returncode = None
    /\ alive = {} /\ out = <<>>
    /\ yielded = <<>> /\ probes = 0 /\ popens = 0 /\ tgtExisted = FALSE
    /\ writes = {} /\ readErrors = 0

\* The file system: no input folder at all, or the folders and some files.
InitFileSystem ==
    \/ dirs = {} /\ fs = FilesOf({})
    \/ \E S \in SUBSET Universe : dirs = DirsOf(S) /\ fs = FilesOf(S \cup {TextFile})

\* convert_folder called from Python.
Init ==
    /\ config = NoConfigFile /\ argv = NoArgv
    /\ input_folder = InDir
    /\ output_folder \in {OutDir, SubDir}
    /\ output_ext = <<".","w","a","v">>
    /\ recursive \in BOOLEAN /\ overwrite \in BOOLEAN /\ quiet \in BOOLEAN
    /\ archive_folder \in {None, Some(ArchDir), Some(InDir)}
    /\ tools \in {"ok", "no_ffmpeg", "no_ffprobe"}
    /\ InitFileSystem
    /\ pc = "cf_start"
    /\ InitFrames

Next ==
    \/ CF_Start \/ CF_Yield \/ CF_Exhausted \/ CF_Move \/ CF_Moved
    \/ CM_CheckFfmpeg \/ CM_Skip \/ CM_Probe \/ CM_Popen \/ CM_ReadLine \/ CM_Eof
    \/ CM_ReadError \/ CM_Finish \/ CM_Drain \/ CM_Return

Spec == Init /\ [][Next]_vars

\* The command line run: main() first, then what convert_folder does.
\* The defaults files a run may find.
ConfigFiles ==
    { NoConfigFile,
      [kind |-> "corrupt", input_folder |-> JAbsent, output_folder |-> JAbsent, archive |-> JAbsent],
      ConfigDict(JStr(InDir), JStr(OutDir), JNull),
      ConfigDict(JStr(InDir), JStr(OutDir), JStr("old_archive")),
      ConfigDict(JAbsent, JNum, JAbsent),
      ConfigDict(JStr("elsewhere"), JStr(""), JStr("")) }

\* The command lines a run may be given.
Argvs ==
    [input : {None}, output : {None}, format : {None, Some(<<".","o","g","g">>)},
     archive : {None, Some(ArchDir)}, no_archive : BOOLEAN, recursive : BOOLEAN,
     overwrite : BOOLEAN, quiet : BOOLEAN, save_defaults : BOOLEAN, show_defaults : BOOLEAN]

InitCli ==
    /\ config \in ConfigFiles /\ argv \in Argvs
    /\ input_folder = "" /\ output_folder = "" /\ output_ext = <<>>
    /\ recursive = FALSE /\ overwrite = FALSE /\ quiet = FALSE
    /\ archive_folder = None
    /\ tools = "ok"
    /\ \E S \in SUBSET {Join(OutDir, A_wav)} :
          /\ dirs = DirsOf(S)
          /\ fs = FilesOf(S \cup {Join(InDir, A_wav), TextFile})
    /\ pc = "main"
    /\ InitFrames

NextCli == Main_ShowDefaults \/ Main_Run \/ Next

SpecCli == InitCli /\ [][NextCli]_vars

\* iter_media_files on its own, over a file system that does not change.
InitList ==
    /\ config = NoConfigFile /\ argv = NoArgv
    /\ input_folder = InDir /\ output_folder = OutDir /\ output_ext = <<".","w","a","v">>
    /\ recursive \in BOOLEAN /\ overwrite = FALSE /\ quiet = FALSE
    /\ archive_folder = None
    /\ tools = "ok"
    /\ \E S \in SUBSET Universe : dirs = DirsOf(S) /\ fs = FilesOf(S \cup {TextFile})
    /\ pc = "list_start"
    /\ InitFrames

NextList == L_Start \/ L_Next

SpecList == InitList /\ [][NextList]_vars

\* ----------------------------------------------------------------- claims

\* A job whose duration is known: the progress loop is, or was, its path.
KnownDuration == InCall /\ ~NoDuration(duration)

\* The call has printed its completion line, or (quiet, exit code 0) has
\* completed without one.
ReportedCompletion ==
    /\ pc = "cm_return"
    /\ \/ \E i \in 1..Len(out) : out[i].text \in {MsgOK, MsgErrorDuring}
       \/ returncode = Some(0)

C1_InRange ==
    KnownDuration =>
        /\ 0 <= last_t /\ last_t <= Val(duration)
        /\ 0 <= bar /\ bar <= Val(duration)
        /\ (ReportedCompletion => bar = Val(duration))

C1_Step == (KnownDuration /\ InCall') => (bar' >= bar /\ last_t' >= last_t)

CallOpen == InCall \/ (pc = "uncaught" /\ src_path # NoPath)

\* A convert_media call has come to its end, by a return or by an exception.
CallEnded == pc = "cm_return" \/ (pc = "uncaught" /\ src_path # NoPath)

\* The open call has printed a line with this text.
Printed(text) == \E i \in 1..Len(out) : out[i].text = text

\* The open call has started a transcode process.
Spawned == src_path \in alive \/ ~IsNone(returncode)

NoDup(q) == \A i, j \in 1..Len(q) : i # j => q[i] # q[j]
YieldedSet == {yielded[i] : i \in 1..Len(yielded)}

\* C2 as stated: when the target exists and overwrite is false no probe and no
\* transcode process is spawned and Skipping is reported unless quiet; when
\* overwrite is true a transcode process is spawned.
C2_Original ==
    CallEnded =>
        /\ (tgtExisted /\ ~overwrite) =>
              probes = 0 /\ popens = 0 /\ (~quiet => Printed(MsgSkipping))
        /\ overwrite => Spawned

\* C2, amended: when the target exists and overwrite is false, no probe and no
\* transcode process is spawned and, if ffmpeg and ffprobe are found, Skipping
\* is the one line reported (none when quiet); when overwrite is true and the
\* tools are found, Popen is called once whether or not the target exists, and a
\* process runs unless that launch fails.
C2_SkipBeforeAnyProcess ==
    /\ (CallOpen /\ tgtExisted /\ ~overwrite) =>
          probes = 0 /\ popens = 0 /\ src_path \notin alive
    /\ (CallEnded /\ tools = "ok" /\ tgtExisted /\ ~overwrite) =>
          out = IF quiet THEN <<>> ELSE <<Msg(MsgSkipping, <<out_path>>)>>
    /\ (CallEnded /\ tools = "ok" /\ overwrite) =>
          popens = 1 /\ (Spawned \/ out = <<Msg(MsgErrorConverting, <<src_path>>)>>)

\* A call whose target existed, with overwrite and quiet off, has ended with the
\* Skipping line and no process.
C2_Witness ==
    /\ pc = "cm_return"
    /\ tgtExisted /\ ~overwrite /\ ~quiet
    /\ Printed(MsgSkipping)
    /\ probes = 0 /\ popens = 0

\* C3: convert_media never propagates an exception to its caller.
C3_NoExceptionLeavesConvertMedia == ~(pc = "uncaught" /\ src_path # NoPath)

\* C4: a run over an existing input folder is never ended by what happens to one
\* file; it ends with a non-zero status only when input_folder is no directory.
C4_OnlyMissingInputEndsRun == pc \in {"exit1", "uncaught"} => ~IsDir(input_folder)

\* C5: at most one transcode process is alive at any point, and on every exit
\* path of convert_media the process it launched has been awaited.
C5_OneProcessAwaited == Cardinality(alive) <= 1 /\ (~InCall => alive = {})

RecognizedSuffixes == {Tail(MEDIA_EXTENSIONS[i]) : i \in 1..Len(MEDIA_EXTENSIONS)}
Recognized(n) ==
    /\ Positions(n, ".") # {}
    /\ Lower(SubSeq(n, Max(Positions(n, ".")) + 1, Len(n))) \in RecognizedSuffixes

\* No file with an unrecognized suffix is passed to convert_media or moved.
UnrecognizedUntouched ==
    \A p \in {q \in Universe \cup {TextFile} : ~Recognized(q.name)} :
        /\ p \notin YieldedSet
        /\ p # src_path
        /\ IsDir(InDir) => (Exists(p) /\ fs[p] = UserFile(p))

\* The run has completed with an archive folder supplied.
Archived == pc = "done" /\ ~IsNone(archive_folder)

\* C7 as stated: after such a run every yielded file is gone from its original
\* path and a file of its basename is in the archive folder; files with an
\* unrecognized suffix are never converted or moved.
C7_Original ==
    /\ Archived =>
          \A p \in YieldedSet :
              ~Exists(p) /\ Exists(Join(Val(archive_folder), Basename(p)))
    /\ UnrecognizedUntouched

\* C7, amended: after such a run a file of each yielded file's basename is in
\* the archive folder, and every yielded file that did not already lie in the
\* archive folder is gone from its original path; files with an unrecognized
\* suffix are never converted or moved.
C7_YieldedFilesArchived ==
    /\ Archived =>
          \A p \in YieldedSet :
              /\ Exists(Join(Val(archive_folder), Basename(p)))
              /\ p.dir # Val(archive_folder) => ~Exists(p)
    /\ UnrecognizedUntouched

\* a.wav of the input folder has been moved into a separate archive folder.
C7_Witness ==
    /\ Archived
    /\ archive_folder = Some(ArchDir)
    /\ Join(InDir, A_wav) \in YieldedSet
    /\ ~Exists(Join(InDir, A_wav))
    /\ Exists(Join(ArchDir, A_wav))
    /\ fs[Join(ArchDir, A_wav)] = UserFile(Join(InDir, A_wav))

\* No target path has been written by more than one transcode process.
WrittenAtMostOnce == \A v, w \in writes : v[1] = w[1] => v = w

\* The open call's target is also the target of a file yielded before.
LaterJobForTarget == \E i \in 1..(Len(yielded) - 1) : TargetOf(yielded[i]) = out_path

\* C8 as stated: with overwrite false no target path is written by more than
\* one transcode process, every later job for a path being skipped without a
\* process launch.
C8_Original ==
    ~overwrite =>
        /\ WrittenAtMostOnce
        /\ (CallOpen /\ LaterJobForTarget) => popens = 0

\* C8, amended: with overwrite false no target path is written by more than
\* one transcode process: a job that finds its target existing is skipped
\* without a process launch, and a later job for a path is launched only when
\* the path is still free, no earlier process having created it.
C8_AtMostOnceOutput ==
    ~overwrite =>
        /\ WrittenAtMostOnce
        /\ (CallOpen /\ tgtExisted) => (popens = 0 /\ src_path \notin alive)
        /\ (CallOpen /\ LaterJobForTarget /\ popens > 0) =>
              /\ ~tgtExisted
              /\ \A w \in writes : w[1] = out_path => w[2] = src_path

\* The second job for a target that the first job's process wrote has ended
\* with no launch.
C8_Witness ==
    /\ pc = "cm_return"
    /\ ~overwrite
    /\ Len(yielded) = 2
    /\ TargetOf(yielded[1]) = out_path
    /\ <<out_path, yielded[1]>> \in writes
    /\ popens = 0 /\ probes = 0

\* The defaults record holds no archive folder: the key is missing or null.
ArchiveFieldOff(cfg) == cfg.kind = "dict" /\ cfg.archive.t \in {"absent", "null"}

\* Every file a user made is where the user put it.
NothingMoved == \A p \in DOMAIN fs : fs[p].made = "user" => fs[p].from = p

\* C9: with the archive field of the defaults record missing or null, a run
\* given no archive option calls convert_folder with archive_folder = None, and
\* no original is moved.
C9_NullArchiveDisablesArchiving ==
    (/\ pc \notin {"main"}
     /\ ~argv.show_defaults
     /\ ArchiveFieldOff(config)
     /\ IsNone(argv.archive) /\ ~argv.no_archive) =>
        (IsNone(archive_folder) /\ NothingMoved)

\* The files under the root: its own, and with recursive those of its subtree.
UnderRoot(p) == IF recursive THEN p.dir \in {InDir, SubDir} ELSE p.dir = InDir

\* The regular files under the root with a recognized suffix.
ExpectedMedia == {p \in DOMAIN fs : UnderRoot(p) /\ Recognized(p.name)}

\* C10: iter_media_files yields, each at most once, exactly the regular files
\* under the root (its direct children, or with recursive its whole subtree)
\* whose suffix after the final dot is, in any case, a recognized extension.
C10_YieldsExactlyMediaFiles ==
    /\ NoDup(yielded)
    /\ YieldedSet \subseteq ExpectedMedia
    /\ pc = "listed" => YieldedSet = ExpectedMedia

\* A recursive listing has ended with a.wav, a.MP3 and the subdirectory's a.wav.
C10_Witness ==
    /\ pc = "listed"
    /\ recursive
    /\ YieldedSet = {Join(InDir, A_wav), Join(InDir, A_MP3), Join(SubDir, A_wav)}

\* Nothing of a batch has been attempted: no file located, converted or
\* recorded, no process spawned, nothing written or moved, no folder created.
NoPartialWork ==
    /\ dirs = {}
    /\ \A p \in DOMAIN fs : fs[p].made = "user" /\ fs[p].from = p
    /\ todo = <<>> /\ pending = {}
    /\ yielded = <<>> /\ converted_files = <<>>
    /\ src_path = NoPath /\ out_path = NoPath
    /\ probes = 0 /\ popens = 0 /\ alive = {} /\ writes = {}

\* With the input folder missing, a step leaves folders and files as they were.
C11_Step == (input_folder \notin dirs) => (dirs' = dirs /\ fs' = fs)

\* C11: convert_folder on an input_folder that is no existing directory exits
\* with status 1 and attempts no partial work: the output folder is not
\* created, no file is located or converted, no process is spawned and
\* nothing is moved to the archive.
C11_MissingInputNoWork ==
    /\ []((input_folder \notin dirs) =>
             /\ pc \in {"cf_start", "exit1"}
             /\ output_folder \notin dirs
             /\ NoPartialWork
             /\ pc = "exit1" => out = <<Msg(MsgNoInput, <<input_folder>>)>>)
    /\ [][C11_Step]_vars

\* The run has ended with status 1 on a missing input folder, with an archive
\* folder asked for and none of the folders made.
C11_Witness ==
    /\ pc = "exit1"
    /\ input_folder \notin dirs
    /\ archive_folder = Some(ArchDir)
    /\ output_folder \notin dirs /\ ArchDir \notin dirs
    /\ out = <<Msg(MsgNoInput, <<input_folder>>)>>

\* The end signal of the progress protocol, and the keys that carry a timestamp.
EndSignal == <<"p","r","o","g","r","e","s","s","=","e","n","d">>
TimestampKeys == {<<"o","u","t","_","t","i","m","e","_","m","s">>, <<"o","u","t","_","t","i","m","e">>}

\* The key of a key=value line: what stands before its first "=".
KeyOf(line) ==
    IF Positions(line, "=") = {} THEN line
    ELSE SubSeq(line, 1, Min(Positions(line, "=")) - 1)

\* The read loop of a known-duration call has taken raw_line from the pipe.
LineRead == KnownDuration /\ raw_line # <<>>

\* Where the loop stands after a line: left by break only on the end signal,
\* and still running after any other line.
C12_StopAtEnd ==
    /\ (LineRead /\ pc = "cm_wait") => Strip(raw_line) = EndSignal
    /\ (LineRead /\ pc = "cm_loop") => Strip(raw_line) # EndSignal

\* Only a line with a timestamp key moves the progress, and nothing moves
\* last_t once the loop is left.
C12_Step ==
    /\ (pc = "cm_loop" /\ (bar' # bar \/ last_t' # last_t)) =>
          KeyOf(Strip(raw_line')) \in TimestampKeys
    /\ (pc = "cm_wait") => last_t' = last_t

\* C12: with the duration known, the read loop stops at the first progress=end
\* line and at no other line; a line with any other key or value neither stops
\* the loop nor moves the progress, and no line after the end signal moves it.
C12_StopsOnlyAtEndSignal == [](C12_StopAtEnd) /\ [][C12_Step]_vars

\* The path a converted file is archived under.
ArchivedAs(p) == Join(Val(archive_folder), Basename(p))

\* The count printed in the Moved line.
MovedCount == {out[i].args[1] : i \in {j \in 1..Len(out) : out[j].text = MsgMoved}}

\* During the archive step no file present is replaced by another.
C13_Step ==
    (pc = "cf_archive") =>
        \A q \in DOMAIN fs : q \in DOMAIN fs' => fs'[q] = fs[q]

\* After the archive step distinct entries are distinct files of the archive
\* folder, and the count reported is the number of those files.
C13_Distinct ==
    Archived =>
        /\ \A i, j \in 1..Len(converted_files) :
              i # j => ArchivedAs(converted_files[i]) # ArchivedAs(converted_files[j])
        /\ \A p \in YieldedSet : Exists(ArchivedAs(p))
        /\ quiet \/ MovedCount = {Cardinality({ArchivedAs(p) : p \in YieldedSet})}

\* C13: the archive step never destroys an original: distinct entries of the
\* converted list end up as distinct files in the archive folder, no move
\* overwrites a file already in the archive or moved earlier in the run, and
\* the reported count is the number of files added to the archive.
C13_ArchiveKeepsEveryOriginal == [](C13_Distinct) /\ [][C13_Step]_vars

\* The file at path p is one a transcode process of this run wrote.
ProducedInRun(p) == Exists(p) /\ fs[p].made = "ffmpeg"

\* C14: in every convert_folder run the source files are disjoint from the
\* targets produced in the run: a file written as a conversion target is never
\* later yielded by the locator and passed to convert_media as a source (and so
\* never recorded for the archive), also with output_folder inside input_folder
\* in recursive mode and a recognized output_ext.
C14_SourcesDisjointFromTargets ==
    /\ (pc = "cm_enter") => ~ProducedInRun(src_path)
    /\ \A i \in 1..Len(yielded) : \A w \in writes :
          (w[1] = yielded[i]) => (w[2] = yielded[i])

====
